---------------------------- MODULE Spec2Model ----------------------------
(***************************************************************************)
(* A model of the matcher package: the lexer (lex), the postfix rewriter   *)
(* (postfix), the Thompson construction (Post2nfa) and the cached          *)
(* simulation (Match, step, addstate, getdfastate).                        *)
(*                                                                         *)
(* Bytes are their ASCII codes, as Go's byte.  A pointer to a state is its *)
(* index in the arena nfa (0 is nil); a pointer to a dfastate is its index *)
(* in the heap dfa (0 is nil); the address of Match's local variable list  *)
(* is ListAddr, and listAddr(p) in the call of the goroutine p.            *)
(***************************************************************************)
EXTENDS Integers, Sequences, FiniteSets, TLC

VARIABLES
    proc,       \* the process: "running", "exited" (log.Fatalln), "panicked"
    phase,      \* the caller's position in the pipeline lex, postfix, Post2nfa
    pattern,    \* the regular expression handed to lex
    chars,      \* the tokens lex returned
    post,       \* the tokens postfix returned (or handed to Post2nfa directly)
    nfa,        \* the arena of states Post2nfa allocated
    start,      \* the entry state Post2nfa returned
    cacheddfa,  \* the package-level map from list addresses to dfastates
    dfa,        \* the dfastates allocated by getdfastate
    fr,         \* the frame of the Match call in progress
    calls,      \* the Match calls of two goroutines: entry state and frame
    maker       \* the call whose make created the map cacheddfa holds

vars == <<proc, phase, pattern, chars, post, nfa, start, cacheddfa, dfa, fr,
          calls, maker>>

---------------------------------------------------------------------------
(* Bounds of the model. *)

MaxPatLen == 3      \* longest pattern of the full pipeline
MaxLexLen == 5      \* longest pattern of the front end alone (lex, postfix)
MaxPostLen == 3     \* longest postfix sequence handed to Post2nfa directly
MaxSrcLen == 2      \* longest source handed to Match
MaxConcSrcLen == 1  \* longest source handed to Match by concurrent callers
MaxTokLen == 5      \* longest token sequence handed to postfix directly

\* The bytes patterns are made of:  a  b  .  *  |  \
PatBytes == {97, 98, 46, 42, 124, 92}
\* The bytes sources are made of:  a  b  .
SrcBytes == {97, 98, 46}

SeqsUpTo(S, n) == UNION {[1..k -> S] : k \in 0..n}

---------------------------------------------------------------------------
(* Tokens: charType and char. *)

charNil == 0
charEscapeLiteral == 1
charLiteral == 2
charDot == 3
charStar == 4
charConcat == 5
charOr == 6

char(t, v) == [typ |-> t, val |-> v]

---------------------------------------------------------------------------
(* The lexer.  l.pos counts from 0 as in Go; expression[pos + 1] is the    *)
(* byte at pos.  log.Fatalln ends the process: the lexer record carries    *)
(* the message in fatal, "" while none was logged.                         *)

NoFatal == ""
TrailingBackslash == "cannot have a trailing backslash in regular expression"
NotQuantifiable == "Preceding token to star is not quantifiable"

escape(c) ==
    CASE c = 48 -> 0        \* '0'
      [] c = 97 -> 7        \* 'a'
      [] c = 98 -> 8        \* 'b'
      [] c = 116 -> 9       \* 't'
      [] c = 110 -> 10      \* 'n'
      [] c = 118 -> 11      \* 'v'
      [] c = 102 -> 12      \* 'f'
      [] c = 114 -> 13      \* 'r'
      [] c = 101 -> 27      \* 'e'
      [] c = 92 -> 92       \* '\\'
      [] OTHER -> c

\* l.next(): the position is advanced even when false is returned.
next(l) == [l EXCEPT !.pos = l.pos + 1]
nextOk(l) == l.pos + 1 < Len(l.expression)

\* l.top(): the last token emitted, or nil (here <<>>).
top(l) == IF Len(l.chars) > 0 THEN <<l.chars[Len(l.chars)]>> ELSE <<>>

\* A variant of the test below that rejects a star only at the start.
starRejectedAtStart(tp) == tp = <<>>

\* The test of emit that rejects a star: top is no literal and no dot.
starRejected(tp) ==
    tp = <<>> \/ (tp[1].typ # charLiteral /\ tp[1].typ # charDot)

\* The test of emit that inserts a concatenation before the token.
concatInserted(t, tp) ==
    t # charStar /\ t # charOr /\ (tp = <<>> \/ tp[1].typ # charOr)

emit(l, t) ==
    LET esc == t = charEscapeLiteral
        l1 == IF esc THEN next(l) ELSE l
        trailing == esc /\ ~nextOk(l)
        c == IF esc /\ ~trailing
                THEN escape(l1.expression[l1.pos + 1])
                ELSE l.expression[l.pos + 1]
        tp == top(l1)
        withConcat == IF concatInserted(t, tp)
                         THEN Append(l1.chars, char(charConcat, 46))
                         ELSE l1.chars
    IN  IF trailing THEN [l1 EXCEPT !.fatal = TrailingBackslash]
        ELSE IF t = charStar /\ starRejected(tp)
            THEN [l1 EXCEPT !.fatal = NotQuantifiable]
        ELSE [l1 EXCEPT !.chars = Append(withConcat, char(t, c))]

\* The switch of run: the token type of a pattern byte.
classify(b) ==
    CASE b = 92 -> charEscapeLiteral    \* '\\'
      [] b = 46 -> charDot              \* '.'
      [] b = 42 -> charStar             \* '*'
      [] b = 124 -> charOr              \* '|'
      [] OTHER -> charLiteral

RECURSIVE run(_)
run(l) ==
    LET l1 == emit(l, classify(l.expression[l.pos + 1]))
    IN  IF l1.fatal # NoFatal THEN l1
        ELSE IF nextOk(l1) THEN run(next(l1))
        ELSE next(l1)

\* chars[1:], the slice without its first element.
dropFirst(s) == SubSeq(s, 2, Len(s))

lex(expression) ==
    IF Len(expression) = 0 THEN [fatal |-> NoFatal, chars |-> <<>>]
    ELSE LET l == run([expression |-> expression, pos |-> 0,
                       chars |-> <<>>, fatal |-> NoFatal])
         IN  IF l.fatal # NoFatal THEN [fatal |-> l.fatal, chars |-> <<>>]
             ELSE [fatal |-> NoFatal, chars |-> dropFirst(l.chars)]

---------------------------------------------------------------------------
(* The postfix rewriter.  p is the pair of slices output, operator.        *)

\* A variant of the pop below that takes the operator off the stack and
\* appends nothing to the output.
popDiscarded(p) ==
    [output |-> p.output,
     operator |-> SubSeq(p.operator, 1, Len(p.operator) - 1)]

\* output = append(output, *pop())
popToOutput(p) ==
    [output |-> Append(p.output, p.operator[Len(p.operator)]),
     operator |-> SubSeq(p.operator, 1, Len(p.operator) - 1)]

pushOperator(p, c) == [p EXCEPT !.operator = Append(p.operator, c)]

\* The star case pops when the top of the operator stack is a star.
starPops(t) == t.typ = charStar
\* The concat case pops when the top is a concat or a star.
concatPops(t) == t.typ = charConcat \/ t.typ = charStar

postfixToken(p, c) ==
    LET n == Len(p.operator)
    IN  CASE c.typ = charStar ->
               pushOperator(IF n > 0 /\ starPops(p.operator[n])
                               THEN popToOutput(p) ELSE p, c)
          [] c.typ = charConcat ->
               pushOperator(IF n > 0 /\ concatPops(p.operator[n])
                               THEN popToOutput(p) ELSE p, c)
          [] c.typ = charOr ->
               pushOperator(IF n > 0 THEN popToOutput(p) ELSE p, c)
          [] OTHER -> [p EXCEPT !.output = Append(p.output, c)]

RECURSIVE postfixLoop(_, _, _)
postfixLoop(p, cs, k) ==
    IF k > Len(cs) THEN p ELSE postfixLoop(postfixToken(p, cs[k]), cs, k + 1)

RECURSIVE popAll(_)
popAll(p) == IF Len(p.operator) = 0 THEN p ELSE popAll(popToOutput(p))

postfix(cs) ==
    popAll(postfixLoop([output |-> <<>>, operator |-> <<>>], cs, 1)).output

---------------------------------------------------------------------------
(* The automaton: styp, state, frag and ptr.  A state is a record of the   *)
(* arena; out holds state indices, 0 for nil.  A ptr names the arrow i     *)
(* (counted from 0) of state s.                                            *)

match == 0
split == 1
single == 2

NilChar == char(charNil, 0)

\* p.s.out[index] = start
setOut(arena, p, target) == [arena EXCEPT ![p.s].out[p.i + 1] = target]

RECURSIVE patchFrom(_, _, _, _)
patchFrom(arena, out, i, target) ==
    IF i < 1 THEN arena
    ELSE patchFrom(setOut(arena, out[i], target), out, i - 1, target)

\* A variant of patch whose loop stops one arrow early.
patchButFirst(arena, out, target) ==
    patchFrom(arena, SubSeq(out, 2, Len(out)), Len(out) - 1, target)

\* patch connects the arrows of out to the state target, last arrow first.
patch(arena, out, target) == patchFrom(arena, out, Len(out), target)

\* b is the builder: the arena, the stack of fragments, and whether a pop
\* of the empty stack has panicked (index out of range).
frag(s, out) == [start |-> s, out |-> out]
ptr(s, i) == [s |-> s, i |-> i]

push(b, f) == [b EXCEPT !.stack = Append(b.stack, f)]
popped(b) == [b EXCEPT !.stack = SubSeq(b.stack, 1, Len(b.stack) - 1)]
topFrag(b) == b.stack[Len(b.stack)]
alloc(b, st) == [b EXCEPT !.arena = Append(b.arena, st)]

\* The default case: a single state holding the token, one arrow dangling.
buildSingle(b, p) ==
    LET s == Len(b.arena) + 1
    IN  push(alloc(b, [typ |-> single, c |-> p, out |-> <<0>>, lastlist |-> 0]),
             frag(s, <<ptr(s, 0)>>))

\* A variant of the concat case below that takes the fragment popped
\* first for the left operand.
buildConcatSwapped(b) ==
    IF Len(b.stack) < 2 THEN [b EXCEPT !.panic = TRUE]
    ELSE LET e1 == topFrag(b)
             b1 == popped(b)
             e2 == topFrag(b1)
             b2 == popped(b1)
         IN  push([b2 EXCEPT !.arena = patch(b2.arena, e1.out, e2.start)],
                  frag(e1.start, e2.out))

buildConcat(b) ==
    IF Len(b.stack) < 2 THEN [b EXCEPT !.panic = TRUE]
    ELSE LET e2 == topFrag(b)
             b1 == popped(b)
             e1 == topFrag(b1)
             b2 == popped(b1)
         IN  push([b2 EXCEPT !.arena = patch(b2.arena, e1.out, e2.start)],
                  frag(e1.start, e2.out))

buildStar(b) ==
    IF Len(b.stack) < 1 THEN [b EXCEPT !.panic = TRUE]
    ELSE LET e == topFrag(b)
             b1 == popped(b)
             s == Len(b1.arena) + 1
             b2 == alloc(b1, [typ |-> split, c |-> NilChar,
                              out |-> <<e.start, 0>>, lastlist |-> 0])
         IN  push([b2 EXCEPT !.arena = patch(b2.arena, e.out, s)],
                  frag(s, <<ptr(s, 1)>>))

buildOr(b) ==
    IF Len(b.stack) < 2 THEN [b EXCEPT !.panic = TRUE]
    ELSE LET e2 == topFrag(b)
             b1 == popped(b)
             e1 == topFrag(b1)
             b2 == popped(b1)
             s == Len(b2.arena) + 1
         IN  push(alloc(b2, [typ |-> split, c |-> NilChar,
                             out |-> <<e1.start, e2.start>>, lastlist |-> 0]),
                  frag(s, e1.out \o e2.out))

buildToken(b, p) ==
    CASE p.typ = charConcat -> buildConcat(b)
      [] p.typ = charStar -> buildStar(b)
      [] p.typ = charOr -> buildOr(b)
      [] OTHER -> buildSingle(b, p)

RECURSIVE buildLoop(_, _, _)
buildLoop(b, ps, k) ==
    IF b.panic \/ k > Len(ps) THEN b
    ELSE buildLoop(buildToken(b, ps[k]), ps, k + 1)

\* The last pop, and the patch of its arrows to a new match state.
buildFinish(b) ==
    IF b.panic THEN [panic |-> TRUE, arena |-> <<>>, start |-> 0]
    ELSE IF Len(b.stack) < 1 THEN [panic |-> TRUE, arena |-> <<>>, start |-> 0]
    ELSE LET e == topFrag(b)
             m == Len(b.arena) + 1
             b1 == alloc(b, [typ |-> match, c |-> NilChar,
                             out |-> <<>>, lastlist |-> 0])
         IN  [panic |-> FALSE, arena |-> patch(b1.arena, e.out, m),
              start |-> e.start]

Post2nfa(ps) ==
    buildFinish(buildLoop([arena |-> <<>>, stack |-> <<>>, panic |-> FALSE],
                          ps, 1))

---------------------------------------------------------------------------
(* The simulation.  m is the memory a Match call works on: the arena nfa,  *)
(* the map cacheddfa, the heap dfa, the frame fr of the call, and fault,   *)
(* the runtime panic raised ("" while none).                               *)

NoFault == ""
NilDeref == "invalid memory address or nil pointer dereference"
IndexRange == "index out of range"
StackOverflow == "stack overflow"

\* The address of the local variable list of Match, the key of cacheddfa.
ListAddr == "&list"

\* The deepest recursion of addstate the goroutine stack is taken to hold:
\* more than every state of the largest automaton plus one.
StackLimit == 2 * (MaxPatLen + MaxLexLen + MaxPostLen) + 2

\* A variant of the guard below that never finds a state stamped.
stampedNever(st, listid) == FALSE

\* A variant of the guard below that takes the stamp for a mark that is
\* set once: any stamp counts.
stampedEver(st, listid) == st.lastlist # 0

\* The guard of addstate: the state already carries this generation.
stamped(st, listid) == st.lastlist = listid

\* A variant of the assignment below that writes the generation into the
\* token of the state as well.
stampInToken(st, listid) == [st EXCEPT !.lastlist = listid, !.c.val = listid]

\* s.lastlist = listid
stamp(st, listid) == [st EXCEPT !.lastlist = listid]

RECURSIVE addstate(_, _, _, _)
addstate(m, s, listid, depth) ==
    IF m.fault # NoFault THEN m
    ELSE IF depth > StackLimit THEN [m EXCEPT !.fault = StackOverflow]
    ELSE IF s = 0 THEN [m EXCEPT !.fault = NilDeref]
    ELSE IF stamped(m.nfa[s], listid) THEN m
    ELSE LET m1 == [m EXCEPT !.nfa[s] = stamp(m.nfa[s], listid)]
         IN  IF m1.nfa[s].typ = split
                THEN addstate(addstate(m1, m1.nfa[s].out[1], listid, depth + 1),
                              m1.nfa[s].out[2], listid, depth + 1)
                ELSE [m1 EXCEPT !.fr.list = Append(m1.fr.list, s)]

\* A variant of the test below that takes every token whose byte is '.'
\* for a dot.
advancesOnDotByte(st, c) ==
    (st.typ = single /\ st.c.val = c) \/ st.c.val = 46

\* The test of step: the state advances on byte c.
advances(st, c) ==
    (st.typ = single /\ st.c.val = c) \/ st.c.typ = charDot

RECURSIVE stepLoop(_, _, _, _, _)
stepLoop(m, list, k, c, listid) ==
    IF m.fault # NoFault \/ k > Len(list) THEN m
    ELSE LET st == m.nfa[list[k]]
         IN  IF advances(st, c)
                THEN IF Len(st.out) < 1
                        THEN [m EXCEPT !.fault = IndexRange]
                        ELSE stepLoop(addstate(m, st.out[1], listid, 1),
                                      list, k + 1, c, listid)
                ELSE stepLoop(m, list, k + 1, c, listid)

\* list, listid = step(list, c, listid): the new list replaces the value
\* of the variable list, the generation is incremented.
step(m, c) ==
    LET listid == m.fr.listid + 1
    IN  stepLoop([m EXCEPT !.fr.list = <<>>, !.fr.listid = listid],
                 m.fr.list, 1, c, listid)

NoNext == [b \in SrcBytes |-> 0]

\* getdfastate(&list): the dfastate cached under the address, allocated
\* and inserted when there is none.  The result is left in fr.got.
\* A variant of the lookup below that never finds an entry.
cachedNever(m, addr) == FALSE

\* d := cacheddfa[list]; d != nil
cached(m, addr) == addr \in DOMAIN m.cacheddfa

\* d = &dfastate{list: list}; cacheddfa[list] = d
insertdfastate(m, addr) ==
    LET d == Len(m.dfa) + 1
    IN  [m EXCEPT !.dfa = Append(m.dfa, [list |-> addr, next |-> NoNext]),
                  !.cacheddfa = [a \in DOMAIN m.cacheddfa \cup {addr} |->
                                   IF a = addr THEN d ELSE m.cacheddfa[a]],
                  !.fr.got = d]

getdfastate(m, addr) ==
    IF cached(m, addr)
        THEN [m EXCEPT !.fr.got = m.cacheddfa[addr]]
        ELSE insertdfastate(m, addr)

\* *d.list: the value of the variable the dfastate points to.
deref(m, addr) == m.fr.list

RECURSIVE ismatchFrom(_, _, _)
ismatchFrom(arena, list, k) ==
    IF k > Len(list) THEN FALSE
    ELSE IF arena[list[k]].typ = match THEN TRUE
    ELSE ismatchFrom(arena, list, k + 1)

ismatch(arena, list) == ismatchFrom(arena, list, 1)

\* The states a list holds, as a set.
Members(list) == {list[k] : k \in 1..Len(list)}

\* The locals of a Match call.  seen records the sets of states the
\* variable list has held in the call so far.
IdleFrame ==
    [pc |-> "idle", source |-> <<>>, i |-> 0, list |-> <<>>, listid |-> 0,
     d |-> 0, got |-> 0, miss |-> FALSE, ret |-> FALSE, fresh |-> TRUE,
     seen |-> {}]

\* No state carries a stamp: the arena is as Post2nfa returned it.
unstamped(arena) == \A s \in 1..Len(arena) : arena[s].lastlist = 0

\* Match up to its loop: the map is made, the closure of the entry state
\* is computed under generation 1 and becomes the first dfastate.  The
\* dfastates of the call before are unreachable and leave the heap.  The
\* frame notes in fresh whether the automaton was unstamped at the call.
matchEnter(m, entry, source) ==
    LET m0 == [m EXCEPT !.cacheddfa = <<>>, !.dfa = <<>>,
                        !.fr = [IdleFrame EXCEPT !.pc = "loop",
                                                 !.source = source,
                                                 !.listid = 1,
                                                 !.fresh = unstamped(m.nfa)]]
        m1 == addstate(m0, entry, 1, 1)
        m2 == getdfastate(m1, ListAddr)
    IN  IF m1.fault # NoFault THEN m1
        ELSE [m2 EXCEPT !.fr.d = m2.fr.got,
                        !.fr.seen = {Members(m1.fr.list)}]

\* One iteration of the loop of Match, on the byte source[i].
matchByte(m) ==
    LET c == m.fr.source[m.fr.i + 1]
        nxt == m.dfa[m.fr.d].next[c]
    IN  IF nxt # 0
           THEN [m EXCEPT !.fr.d = nxt, !.fr.i = m.fr.i + 1, !.fr.miss = FALSE]
           ELSE LET m1 == step(m, c)
                    m2 == getdfastate(m1, ListAddr)
                    m3 == [m2 EXCEPT !.dfa[m.fr.d].next[c] = m2.fr.got]
                IN  IF m1.fault # NoFault THEN m1
                    ELSE [m3 EXCEPT !.fr.d = m3.dfa[m.fr.d].next[c],
                                    !.fr.i = m.fr.i + 1, !.fr.miss = TRUE,
                                    !.fr.seen = m.fr.seen \cup {Members(m1.fr.list)}]

\* return ismatch(*d.list)
matchReturn(m) ==
    [m EXCEPT !.fr.pc = "done",
              !.fr.ret = ismatch(m.nfa, deref(m, m.dfa[m.fr.d].list))]

RECURSIVE matchRun(_)
matchRun(m) ==
    IF m.fault # NoFault THEN m
    ELSE IF m.fr.i < Len(m.fr.source) THEN matchRun(matchByte(m))
    ELSE matchReturn(m)

\* Match(start, source) run to its end on the memory m.
Match(m, entry, source) == matchRun(matchEnter(m, entry, source))

---------------------------------------------------------------------------
(* The state machine: a caller that runs the pipeline of main (lex, then   *)
(* postfix, then Post2nfa) on one pattern and then calls Match on the      *)
(* automaton any number of times, one call after the other.                *)

Patterns(n) == SeqsUpTo(PatBytes, n)
Sources == SeqsUpTo(SrcBytes, MaxSrcLen)

\* The tokens of the postfix sequences handed to Post2nfa directly:
\* a  .  \.  *  concat  |
PostTokens ==
    {char(charLiteral, 97), char(charDot, 46), char(charEscapeLiteral, 46),
     char(charStar, 42), char(charConcat, 46), char(charOr, 124)}
PostSeqs == SeqsUpTo(PostTokens, MaxPostLen)
\* The token sequences handed to postfix directly, in any order of tokens.
TokenSeqs == SeqsUpTo(PostTokens, MaxTokLen)

\* The goroutines that call Match concurrently.
CallIds == {1, 2}
NoCalls == [p \in CallIds |-> [entry |-> 0, fr |-> IdleFrame]]

Nothing ==
    /\ proc = "running"
    /\ chars = <<>>
    /\ nfa = <<>>
    /\ start = 0
    /\ cacheddfa = <<>>
    /\ dfa = <<>>
    /\ fr = IdleFrame
    /\ calls = NoCalls
    /\ maker = 0

Init ==
    /\ Nothing
    /\ phase = "init"
    /\ pattern \in Patterns(MaxPatLen)
    /\ post = <<>>

InitLex ==
    /\ Nothing
    /\ phase = "init"
    /\ pattern \in Patterns(MaxLexLen)
    /\ post = <<>>

InitTokens ==
    /\ proc = "running"
    /\ phase = "lexed"
    /\ pattern = <<>>
    /\ chars \in TokenSeqs
    /\ post = <<>>
    /\ nfa = <<>>
    /\ start = 0
    /\ cacheddfa = <<>>
    /\ dfa = <<>>
    /\ fr = IdleFrame
    /\ calls = NoCalls
    /\ maker = 0

InitPost ==
    /\ Nothing
    /\ phase = "postfixed"
    /\ pattern = <<>>
    /\ post \in PostSeqs

\* chars := lex(regexp); log.Fatalln exits the process.
DoLex ==
    /\ proc = "running"
    /\ phase = "init"
    /\ LET r == lex(pattern)
       IN  IF r.fatal # NoFatal
              THEN /\ proc' = "exited"
                   /\ UNCHANGED <<phase, chars>>
              ELSE /\ chars' = r.chars
                   /\ phase' = "lexed"
                   /\ UNCHANGED proc
    /\ UNCHANGED <<pattern, post, nfa, start, cacheddfa, dfa, fr, calls, maker>>

\* chars = postfix(chars)
DoPostfix ==
    /\ proc = "running"
    /\ phase = "lexed"
    /\ post' = postfix(chars)
    /\ phase' = "postfixed"
    /\ UNCHANGED <<proc, pattern, chars, nfa, start, cacheddfa, dfa, fr,
                   calls, maker>>

\* nfa := Post2nfa(chars); a pop of the empty stack panics.
DoPost2nfa ==
    /\ proc = "running"
    /\ phase = "postfixed"
    /\ LET r == Post2nfa(post)
       IN  IF r.panic
              THEN /\ proc' = "panicked"
                   /\ UNCHANGED <<phase, nfa, start>>
              ELSE /\ nfa' = r.arena
                   /\ start' = r.start
                   /\ phase' = "built"
                   /\ UNCHANGED proc
    /\ UNCHANGED <<pattern, chars, post, cacheddfa, dfa, fr, calls, maker>>

Mem == [nfa |-> nfa, cacheddfa |-> cacheddfa, dfa |-> dfa, fr |-> fr,
        fault |-> NoFault]

Store(m) ==
    /\ nfa' = m.nfa
    /\ cacheddfa' = m.cacheddfa
    /\ dfa' = m.dfa
    /\ fr' = m.fr
    /\ proc' = IF m.fault # NoFault THEN "panicked" ELSE proc
    /\ UNCHANGED <<phase, pattern, chars, post, start, calls, maker>>

\* Match(nfa, source) is called and runs up to its loop.
MatchBegin(source) ==
    /\ proc = "running"
    /\ phase = "built"
    /\ fr.pc \in {"idle", "done"}
    /\ Store(matchEnter(Mem, start, source))

\* One iteration of the loop of Match.
MatchByte ==
    /\ proc = "running"
    /\ fr.pc = "loop"
    /\ fr.i < Len(fr.source)
    /\ Store(matchByte(Mem))

\* The loop is over: Match returns.
MatchReturn ==
    /\ proc = "running"
    /\ fr.pc = "loop"
    /\ fr.i = Len(fr.source)
    /\ Store(matchReturn(Mem))

Next ==
    \/ DoLex
    \/ DoPostfix
    \/ DoPost2nfa
    \/ \E source \in Sources : MatchBegin(source)
    \/ MatchByte
    \/ MatchReturn

NextLex ==
    \/ DoLex
    \/ DoPostfix

NextPost ==
    \/ DoPost2nfa
    \/ \E source \in Sources : MatchBegin(source)
    \/ MatchByte
    \/ MatchReturn

NextBuild ==
    \/ DoLex
    \/ DoPostfix
    \/ DoPost2nfa

\* The full pipeline on patterns of up to MaxPatLen bytes.
Spec == Init /\ [][Next]_vars
\* The front end alone, on patterns of up to MaxLexLen bytes.
SpecLex == InitLex /\ [][NextLex]_vars
\* postfix alone, on token sequences of the caller's own.
SpecTokens == InitTokens /\ [][DoPostfix]_vars
\* The front end and Post2nfa, on patterns of up to MaxLexLen bytes.
SpecBuild == InitLex /\ [][NextBuild]_vars
\* Post2nfa and Match on postfix sequences of the caller's own.
SpecPost == InitPost /\ [][NextPost]_vars

---------------------------------------------------------------------------
(* Two goroutines that call Match at the same time.  The map cacheddfa is  *)
(* a package-level variable, the stamps lastlist are fields of the states: *)
(* both are shared by the calls.  A call proceeds statement by statement:  *)
(* make, the first closure, the lookup and the insert of getdfastate, the  *)
(* assignment of its result, the loop.  The interleavings of the           *)
(* statements are among the executions of the program.                     *)

\* The address of the variable list of the call p.
listAddr(p) == <<ListAddr, p>>

\* The arena moved n places up.
shifted(arena, n) ==
    [s \in 1..Len(arena) |->
        [arena[s] EXCEPT !.out = [j \in DOMAIN arena[s].out |->
                                    IF arena[s].out[j] = 0 THEN 0
                                    ELSE arena[s].out[j] + n]]]

\* Post2nfa(chars) is called twice: two automata of the one postfix
\* sequence lie in the arena, the second behind the first.
DoPost2nfaTwice ==
    /\ proc = "running"
    /\ phase = "postfixed"
    /\ LET r == Post2nfa(post)
       IN  IF r.panic
              THEN /\ proc' = "panicked"
                   /\ UNCHANGED <<phase, nfa, start>>
              ELSE /\ nfa' = r.arena \o shifted(r.arena, Len(r.arena))
                   /\ start' = r.start
                   /\ phase' = "built"
                   /\ UNCHANGED proc
    /\ UNCHANGED <<pattern, chars, post, cacheddfa, dfa, fr, calls, maker>>

\* The entry state of the second automaton.
start2 == start + Len(nfa) \div 2

MemOf(p) == [nfa |-> nfa, cacheddfa |-> cacheddfa, dfa |-> dfa,
             fr |-> calls[p].fr, fault |-> NoFault]

StoreCall(p, m) ==
    /\ nfa' = m.nfa
    /\ cacheddfa' = m.cacheddfa
    /\ dfa' = m.dfa
    /\ calls' = [calls EXCEPT ![p].fr = m.fr]
    /\ proc' = IF m.fault # NoFault THEN "panicked" ELSE proc
    /\ UNCHANGED <<phase, pattern, chars, post, start, fr>>

\* go Match(entry, source)
GoMatch(p, entry, source) ==
    /\ proc = "running"
    /\ phase = "built"
    /\ calls[p].fr.pc = "idle"
    /\ calls' = [calls EXCEPT ![p] =
                    [entry |-> entry,
                     fr |-> [IdleFrame EXCEPT !.pc = "make", !.source = source]]]
    /\ UNCHANGED <<proc, phase, pattern, chars, post, nfa, start, cacheddfa,
                   dfa, fr, maker>>

\* cacheddfa = make(map[*[]*state]*dfastate)
CallMake(p) ==
    /\ proc = "running"
    /\ calls[p].fr.pc = "make"
    /\ cacheddfa' = <<>>
    /\ maker' = p
    /\ calls' = [calls EXCEPT ![p].fr.pc = "closure"]
    /\ UNCHANGED <<proc, phase, pattern, chars, post, nfa, start, dfa, fr>>

\* listid := 1; list := []*state{}; addstate(&list, start, listid)
CallClosure(p) ==
    /\ proc = "running"
    /\ calls[p].fr.pc = "closure"
    /\ LET m == MemOf(p)
           m0 == [m EXCEPT !.fr.pc = "lookup", !.fr.listid = 1,
                           !.fr.list = <<>>, !.fr.fresh = unstamped(nfa)]
           m1 == addstate(m0, calls[p].entry, 1, 1)
       IN  StoreCall(p, [m1 EXCEPT !.fr.seen = {Members(m1.fr.list)}])
    /\ UNCHANGED maker

\* getdfastate: d := cacheddfa[list]; if d != nil { return d }
CallLookup(p) ==
    /\ proc = "running"
    /\ calls[p].fr.pc = "lookup"
    /\ LET m == MemOf(p)
       IN  IF cached(m, listAddr(p))
              THEN StoreCall(p, [m EXCEPT !.fr.got = cacheddfa[listAddr(p)],
                                          !.fr.pc = "assign"])
              ELSE StoreCall(p, [m EXCEPT !.fr.pc = "insert"])
    /\ UNCHANGED maker

\* getdfastate: d = &dfastate{list: list}; cacheddfa[list] = d; return d
CallInsert(p) ==
    /\ proc = "running"
    /\ calls[p].fr.pc = "insert"
    /\ LET m == insertdfastate(MemOf(p), listAddr(p))
       IN  StoreCall(p, [m EXCEPT !.fr.pc = "assign"])
    /\ UNCHANGED maker

\* The result of getdfastate is assigned: d := getdfastate(&list) before
\* the loop; d.next[c] = getdfastate(&list); next = d.next[c]; d = next
\* in the loop.
CallAssign(p) ==
    /\ proc = "running"
    /\ calls[p].fr.pc = "assign"
    /\ LET m == MemOf(p)
           f == m.fr
       IN  IF f.d = 0
              THEN StoreCall(p, [m EXCEPT !.fr.d = f.got, !.fr.pc = "loop"])
              ELSE LET c == f.source[f.i + 1]
                       m1 == [m EXCEPT !.dfa[f.d].next[c] = f.got]
                   IN  StoreCall(p, [m1 EXCEPT !.fr.d = m1.dfa[f.d].next[c],
                                               !.fr.i = f.i + 1,
                                               !.fr.pc = "loop"])
    /\ UNCHANGED maker

\* The head of one iteration: next = d.next[c], and on nil the step.
CallLoop(p) ==
    /\ proc = "running"
    /\ calls[p].fr.pc = "loop"
    /\ calls[p].fr.i < Len(calls[p].fr.source)
    /\ LET m == MemOf(p)
           f == m.fr
           c == f.source[f.i + 1]
           nxt == dfa[f.d].next[c]
       IN  IF nxt # 0
              THEN StoreCall(p, [m EXCEPT !.fr.d = nxt, !.fr.i = f.i + 1,
                                          !.fr.miss = FALSE])
              ELSE LET m1 == step(m, c)
                   IN  StoreCall(p, [m1 EXCEPT !.fr.miss = TRUE,
                                               !.fr.pc = "lookup",
                                               !.fr.seen = f.seen \cup
                                                   {Members(m1.fr.list)}])
    /\ UNCHANGED maker

\* The variable a list address names.
derefCall(addr) == calls[addr[2]].fr.list

\* return ismatch(*d.list)
CallReturn(p) ==
    /\ proc = "running"
    /\ calls[p].fr.pc = "loop"
    /\ calls[p].fr.i = Len(calls[p].fr.source)
    /\ LET m == MemOf(p)
       IN  StoreCall(p, [m EXCEPT !.fr.pc = "done",
                                  !.fr.ret = ismatch(nfa, derefCall(dfa[m.fr.d].list))])
    /\ UNCHANGED maker

ConcSources == SeqsUpTo(SrcBytes, MaxConcSrcLen)

NextConc ==
    \/ DoPost2nfaTwice
    \/ \E source \in ConcSources : GoMatch(1, start, source)
    \/ \E entry \in {start, start2}, source \in ConcSources :
           GoMatch(2, entry, source)
    \/ \E p \in CallIds : CallMake(p)
    \/ \E p \in CallIds : CallClosure(p)
    \/ \E p \in CallIds : CallLookup(p)
    \/ \E p \in CallIds : CallInsert(p)
    \/ \E p \in CallIds : CallAssign(p)
    \/ \E p \in CallIds : CallLoop(p)
    \/ \E p \in CallIds : CallReturn(p)

\* Two concurrent Match calls on automata of the caller's postfix sequence.
SpecConc == InitPost /\ [][NextConc]_vars

---------------------------------------------------------------------------
(* The languages the claims speak of, cut to the sources of the model: a   *)
(* language is the set of its strings of at most MaxSrcLen bytes over      *)
(* SrcBytes.  A string of that length is in a concatenation or in a        *)
(* repetition only through parts of that length, so the cut is exact.      *)

LEmpty == {<<>>}
LCat(A, B) == {z \in {x \o y : x \in A, y \in B} : Len(z) <= MaxSrcLen}
LOr(A, B) == A \cup B

RECURSIVE LStarFrom(_, _)
LStarFrom(A, acc) ==
    LET more == acc \cup LCat(acc, A)
    IN  IF more = acc THEN acc ELSE LStarFrom(A, more)

LStar(A) == LStarFrom(A, LEmpty)

\* The bytes a token stands for: any byte for a dot, its own byte for a
\* literal and for an escaped literal.
TokenBytes(t) ==
    IF t.typ = charDot THEN SrcBytes
    ELSE IF t.typ \in {charLiteral, charEscapeLiteral} THEN {t.val} \cap SrcBytes
    ELSE {}

LSym(t) == IF MaxSrcLen < 1 THEN {} ELSE {<<b>> : b \in TokenBytes(t)}

IsOperand(t) == t.typ \in {charLiteral, charDot, charEscapeLiteral}

(* The symbols of a pattern as the grammar reads it: a backslash and the   *)
(* byte after it are one escaped literal, a backslash at the end stands    *)
(* alone as the token charNil.                                             *)
RECURSIVE RefTokensFrom(_, _)
RefTokensFrom(p, k) ==
    IF k > Len(p) THEN <<>>
    ELSE IF p[k] = 92
        THEN IF k = Len(p) THEN <<char(charNil, 92)>>
             ELSE <<char(charEscapeLiteral, escape(p[k + 1]))>>
                  \o RefTokensFrom(p, k + 2)
    ELSE <<char(IF p[k] = 46 THEN charDot
                ELSE IF p[k] = 42 THEN charStar
                ELSE IF p[k] = 124 THEN charOr
                ELSE charLiteral, p[k])>> \o RefTokensFrom(p, k + 1)

RefTokens(p) == RefTokensFrom(p, 1)

TrailingBackslashIn(p) ==
    LET ts == RefTokens(p) IN Len(ts) > 0 /\ ts[Len(ts)].typ = charNil

\* A star that is the first symbol or follows a star or an alternation.
StarAfterOperator(p) ==
    LET ts == RefTokens(p)
    IN  \E i \in 1..Len(ts) :
            /\ ts[i].typ = charStar
            /\ (i = 1 \/ ts[i - 1].typ \in {charStar, charOr})

\* An alternation with nothing on one of its sides.
EmptyAlternative(p) ==
    LET ts == RefTokens(p)
    IN  \/ Len(ts) = 0
        \/ ts[1].typ = charOr
        \/ ts[Len(ts)].typ = charOr
        \/ \E i \in 2..Len(ts) : ts[i].typ = charOr /\ ts[i - 1].typ = charOr

\* A pattern of the grammar: symbols, each possibly starred, in non-empty
\* alternatives.
WellFormed(p) ==
    ~TrailingBackslashIn(p) /\ ~StarAfterOperator(p) /\ ~EmptyAlternative(p)

(* The language of a well-formed pattern: the union of its alternatives,   *)
(* each the concatenation of its symbols, a starred symbol repeated zero   *)
(* or more times.  cat is the alternative read so far, alts the union of   *)
(* the alternatives before it.                                             *)
RECURSIVE RefLangFrom(_, _, _, _)
RefLangFrom(ts, k, cat, alts) ==
    IF k > Len(ts) THEN LOr(alts, cat)
    ELSE IF ts[k].typ = charOr THEN RefLangFrom(ts, k + 1, LEmpty, LOr(alts, cat))
    ELSE LET starred == k < Len(ts) /\ ts[k + 1].typ = charStar
             unit == IF starred THEN LStar(LSym(ts[k])) ELSE LSym(ts[k])
         IN  RefLangFrom(ts, IF starred THEN k + 2 ELSE k + 1,
                         LCat(cat, unit), alts)

RefLang(p) == RefLangFrom(RefTokens(p), 1, LEmpty, {})

---------------------------------------------------------------------------
(* C1.  Whole-string matching: on a freshly built automaton Match returns  *)
(* true exactly when the whole source is in the language of the pattern.   *)
(* Stated for the well-formed patterns, whose language the grammar fixes.  *)
C1_WholeStringMatch ==
    (phase = "built" /\ fr.pc = "done" /\ fr.fresh /\ WellFormed(pattern))
        => (fr.ret <=> fr.source \in RefLang(pattern))

---------------------------------------------------------------------------
\* The memory of a call on an automaton built anew from the same postfix
\* sequence.
FreshMem ==
    [nfa |-> Post2nfa(post).arena, cacheddfa |-> <<>>, dfa |-> <<>>,
     fr |-> IdleFrame, fault |-> NoFault]

(* C2.  Every Match call on a compiled automaton returns what the same     *)
(* call returns on a freshly built automaton for the same postfix          *)
(* sequence, whatever calls came before it.                                *)
C2_SameAsFresh ==
    (phase = "built" /\ fr.pc = "done")
        => fr.ret = Match(FreshMem, start, fr.source).fr.ret

---------------------------------------------------------------------------
(* C3.  Match terminates: on a built automaton no closure runs away (no   *)
(* call of addstate exhausts the stack or panics), the loop never passes   *)
(* the end of the source, and every step of a call in its loop consumes    *)
(* one byte or returns; so a call returns after at most one step per byte. *)
(* This holds also on an automaton whose splits form a cycle without a     *)
(* single state in it (a starred star), where only the stamp stops the     *)
(* closure.                                                                *)
C3_MatchTerminates ==
    /\ [](phase = "built" => (proc = "running" /\ fr.i <= Len(fr.source)))
    /\ [][fr.pc = "loop" =>
             \/ fr'.pc = "done" /\ fr.i = Len(fr.source)
             \/ fr'.pc = "loop" /\ fr'.i = fr.i + 1]_vars

\* The split states reachable from the states of S along arrows of splits.
RECURSIVE SplitClosure(_)
SplitClosure(S) ==
    LET more == S \cup {t \in 1..Len(nfa) :
                           /\ nfa[t].typ = split
                           /\ \E s \in S : \E k \in 1..Len(nfa[s].out) :
                                  nfa[s].out[k] = t}
    IN  IF more = S THEN S ELSE SplitClosure(more)

OnSplitCycle(s) ==
    /\ nfa[s].typ = split
    /\ \E k \in 1..2 :
           /\ nfa[s].out[k] # 0
           /\ nfa[nfa[s].out[k]].typ = split
           /\ s \in SplitClosure({nfa[s].out[k]})

\* A call has returned after its closures went through a cycle of splits.
C3_Witness ==
    /\ fr.pc = "done"
    /\ Len(fr.source) > 0
    /\ \E s \in 1..Len(nfa) : OnSplitCycle(s) /\ nfa[s].lastlist > 1

---------------------------------------------------------------------------
(* C4.  For a non-empty pattern lex accepts, postfix and Post2nfa complete *)
(* without a pop of the empty fragment stack.                              *)
C4_NoStackUnderflow ==
    ~(Len(pattern) > 0 /\ phase = "postfixed" /\ proc = "panicked")

---------------------------------------------------------------------------
\* An infix sequence of the grammar: operands, each followed by stars,
\* joined by Concat or Or.
WellFormedInfix(cs) ==
    /\ Len(cs) > 0
    /\ IsOperand(cs[1])
    /\ ~IsOperand(cs[Len(cs)]) => cs[Len(cs)].typ = charStar
    /\ \A i \in 2..Len(cs) :
           IF IsOperand(cs[i]) THEN cs[i - 1].typ \in {charConcat, charOr}
           ELSE IsOperand(cs[i - 1]) \/ cs[i - 1].typ = charStar

\* unit is the operand read last with its stars, cat the concatenation
\* before it, alts the union of the alternatives before that.
RECURSIVE InfixLangFrom(_, _, _, _, _)
InfixLangFrom(cs, k, unit, cat, alts) ==
    IF k > Len(cs) THEN LOr(alts, LCat(cat, unit))
    ELSE IF cs[k].typ = charStar
        THEN InfixLangFrom(cs, k + 1, LStar(unit), cat, alts)
    ELSE IF cs[k].typ = charConcat
        THEN InfixLangFrom(cs, k + 2, LSym(cs[k + 1]), LCat(cat, unit), alts)
    ELSE InfixLangFrom(cs, k + 2, LSym(cs[k + 1]), LEmpty,
                       LOr(alts, LCat(cat, unit)))

InfixLang(cs) == InfixLangFrom(cs, 2, LSym(cs[1]), LEmpty, {})

\* The evaluation of a postfix sequence on a stack of languages; bad when
\* an operator finds too few operands.
RECURSIVE RpnFrom(_, _, _)
RpnFrom(ps, k, r) ==
    IF r.bad \/ k > Len(ps) THEN r
    ELSE LET t == ps[k]
             n == Len(r.stack)
         IN  IF t.typ = charStar
                THEN IF n < 1 THEN [r EXCEPT !.bad = TRUE]
                     ELSE RpnFrom(ps, k + 1,
                              [r EXCEPT !.stack = Append(SubSeq(r.stack, 1, n - 1),
                                                         LStar(r.stack[n]))])
             ELSE IF t.typ \in {charConcat, charOr}
                THEN IF n < 2 THEN [r EXCEPT !.bad = TRUE]
                     ELSE RpnFrom(ps, k + 1,
                              [r EXCEPT !.stack = Append(SubSeq(r.stack, 1, n - 2),
                                  IF t.typ = charConcat
                                     THEN LCat(r.stack[n - 1], r.stack[n])
                                     ELSE LOr(r.stack[n - 1], r.stack[n]))])
             ELSE RpnFrom(ps, k + 1, [r EXCEPT !.stack = Append(r.stack, LSym(t))])

RpnDenotes(ps, L) ==
    LET r == RpnFrom(ps, 1, [stack |-> <<>>, bad |-> FALSE])
    IN  ~r.bad /\ Len(r.stack) = 1 /\ r.stack[1] = L

(* C5.  The output of postfix, evaluated as a reverse-Polish expression,   *)
(* denotes the language of the infix sequence read with Star binding       *)
(* tightest, then Concat, then Or.                                         *)
C5_PostfixKeepsPrecedence ==
    (phase = "postfixed" /\ WellFormedInfix(chars))
        => RpnDenotes(post, InfixLang(chars))

---------------------------------------------------------------------------
(* C6.  lex rejects a pattern that ends in a lone backslash or that has a  *)
(* star first or right after a star or an alternation: the process logs    *)
(* the error and no token sequence is returned.                            *)
C6_LexRejectsMalformed ==
    (TrailingBackslashIn(pattern) \/ StarAfterOperator(pattern))
        => (phase = "init" /\ chars = <<>> /\ proc \in {"running", "exited"})

\* lex has rejected a pattern for a star right after an alternation.
C6_Witness ==
    /\ proc = "exited"
    /\ ~TrailingBackslashIn(pattern)
    /\ LET ts == RefTokens(pattern)
       IN  \E i \in 2..Len(ts) : ts[i].typ = charStar /\ ts[i - 1].typ = charOr

---------------------------------------------------------------------------
(* C7.  lex accepts a star after a literal, a dot or an escaped literal:   *)
(* it rejects a pattern only for a lone trailing backslash or for a star   *)
(* that is first or follows a star or an alternation.                      *)
C7_StarAfterSymbolAccepted ==
    (phase = "init" /\ proc = "exited")
        => (TrailingBackslashIn(pattern) \/ StarAfterOperator(pattern))

---------------------------------------------------------------------------
(* C8.  No failure path of the pipeline ends the process: after a syntax   *)
(* error of lex or a stack underflow of Post2nfa the process is running.   *)
C8_ProcessKeepsRunning == proc = "running"

---------------------------------------------------------------------------
\* The byte c is one the token of the single state st stands for.
SymbolMatches(st, c) ==
    /\ st.typ = single
    /\ \/ st.c.typ = charDot
       \/ st.c.typ \in {charLiteral, charEscapeLiteral} /\ st.c.val = c

(* C9.  In step a state holding a dot advances on every byte, a state      *)
(* holding a literal or an escaped literal advances on its own byte only,  *)
(* and a match state never advances.                                       *)
C9_SymbolMatching ==
    fr.pc = "loop" =>
        \A k \in 1..Len(fr.list) : \A c \in SrcBytes :
            advances(nfa[fr.list[k]], c) <=> SymbolMatches(nfa[fr.list[k]], c)

\* Match is about to step, on a byte other than '.', from a list that
\* holds an escaped dot.
C9_Witness ==
    /\ fr.pc = "loop"
    /\ fr.i < Len(fr.source)
    /\ fr.source[fr.i + 1] # 46
    /\ dfa[fr.d].next[fr.source[fr.i + 1]] = 0
    /\ \E k \in 1..Len(fr.list) :
           nfa[fr.list[k]].c = char(charEscapeLiteral, 46)

---------------------------------------------------------------------------
RECURSIVE WithoutConcat(_)
WithoutConcat(cs) ==
    IF cs = <<>> THEN <<>>
    ELSE IF cs[1].typ = charConcat THEN WithoutConcat(Tail(cs))
    ELSE <<cs[1]>> \o WithoutConcat(Tail(cs))

\* The tokens before position i that are no Concat.
Before(cs, i) == WithoutConcat(SubSeq(cs, 1, i - 1))

ConcatPlaced(cs) ==
    \A i \in 1..Len(cs) :
        IF cs[i].typ = charConcat
           THEN i < Len(cs) /\ cs[i + 1].typ # charConcat
           ELSE (i > 1 /\ cs[i - 1].typ = charConcat)
                    <=> /\ Before(cs, i) # <<>>
                        /\ cs[i].typ \notin {charStar, charOr}
                        /\ Before(cs, i)[Len(Before(cs, i))].typ # charOr

(* C10.  The tokens of lex, the Concat tokens left out, are the symbols of *)
(* the pattern in order, and a Concat stands right before a token exactly  *)
(* when the token is not the first, is no Star and no Or, and the token    *)
(* before it is no Or.                                                     *)
C10_LexTokenization ==
    phase = "lexed"
        => (WithoutConcat(chars) = RefTokens(pattern) /\ ConcatPlaced(chars))

---------------------------------------------------------------------------
\* The result of the call p when it runs alone on a new automaton.
Alone(p) == Match(FreshMem, start, calls[p].fr.source).fr.ret

(* C11.  Of two Match calls that run at the same time, each looks up and   *)
(* inserts only in the map its own make created, and each returns what it  *)
(* returns when it runs alone.                                             *)
C11_PerCallCache ==
    /\ [](\A p \in CallIds :
            calls[p].fr.pc = "done" => calls[p].fr.ret = Alone(p))
    /\ [][\A p \in CallIds : (CallLookup(p) \/ CallInsert(p)) => maker = p]_vars

---------------------------------------------------------------------------
(* C12.  At every point of a Match call the dfastates created in the call  *)
(* and the entries of cacheddfa are at most as many as the distinct sets   *)
(* of states the scan has reached so far, and these are at most one more   *)
(* than the bytes consumed.                                                *)
C12_BoundedCaching ==
    fr.pc \in {"loop", "done"} =>
        /\ Len(dfa) <= Cardinality(fr.seen)
        /\ Cardinality(DOMAIN cacheddfa) <= Cardinality(fr.seen)
        /\ Cardinality(fr.seen) <= 1 + fr.i

\* A call that has consumed two bytes, the second through step, and has
\* reached more than one set of states.
C12_Witness ==
    /\ fr.pc = "loop"
    /\ fr.i >= 2
    /\ fr.miss
    /\ Cardinality(fr.seen) >= 2
    /\ Len(dfa) >= 1

---------------------------------------------------------------------------
(* The plain simulation of an automaton, without stamps and without a      *)
(* cache: sets of states, the closure along the arrows of split states,    *)
(* and one step per byte.                                                  *)

\* The states reachable from the states of S along arrows of split states.
RECURSIVE SplitReach(_, _)
SplitReach(arena, S) ==
    LET more == S \cup ({arena[s].out[k] :
                            s \in {x \in S : arena[x].typ = split},
                            k \in 1..2} \ {0})
    IN  IF more = S THEN S ELSE SplitReach(arena, more)

\* The single and match states among them.
SetClosure(arena, S) ==
    {s \in SplitReach(arena, S \ {0}) : arena[s].typ # split}

SetStep(arena, S, c) ==
    SetClosure(arena, {arena[s].out[1] : s \in {x \in S : advances(arena[x], c)}})

RECURSIVE SetRunFrom(_, _, _, _)
SetRunFrom(arena, S, source, k) ==
    IF k > Len(source) THEN S
    ELSE SetRunFrom(arena, SetStep(arena, S, source[k]), source, k + 1)

\* The set of states after the whole of source.
SetRun(arena, entry, source) ==
    SetRunFrom(arena, SetClosure(arena, {entry}), source, 1)

Accepts(arena, entry, source) ==
    \E s \in SetRun(arena, entry, source) : arena[s].typ = match

---------------------------------------------------------------------------
(* C13.  In a Match call on a newly built automaton, after any prefix of   *)
(* the source the list of the current dfastate holds the states the plain  *)
(* simulation reaches on that prefix, and the call returns what the plain  *)
(* simulation returns.                                                     *)
C13_LazyDfaIsNfaSimulation ==
    /\ (fr.pc = "loop" /\ fr.fresh) =>
           Members(deref(Mem, dfa[fr.d].list))
               = SetRun(nfa, start, SubSeq(fr.source, 1, fr.i))
    /\ (fr.pc = "done" /\ fr.fresh) =>
           (fr.ret <=> Accepts(nfa, start, fr.source))

---------------------------------------------------------------------------
\* The list holds the states of S, each once.
IsListOf(list, S) == Members(list) = S /\ Len(list) = Cardinality(S)

\* No state of the automaton carries the generation listid.
Unused(listid) == \A s \in 1..Len(nfa) : nfa[s].lastlist # listid

(* C14.  When the first closure of a call, or a step, starts with a        *)
(* generation that no state carries, the list it leaves holds the single   *)
(* and match states reachable along arrows of split states (from the entry *)
(* state, or from the targets of the states that advance), each once; and  *)
(* every list of a call is free of duplicates and of split states.         *)
C14_ClosureResult ==
    /\ [](fr.pc = "loop" =>
            /\ Len(fr.list) = Cardinality(Members(fr.list))
            /\ \A k \in 1..Len(fr.list) : nfa[fr.list[k]].typ # split)
    /\ [][(fr.pc \in {"idle", "done"} /\ fr'.pc = "loop" /\ Unused(1)) =>
             IsListOf(fr'.list, SetClosure(nfa, {start}))]_vars
    /\ [][(fr.pc = "loop" /\ fr'.pc = "loop" /\ fr'.listid = fr.listid + 1
              /\ Unused(fr.listid + 1)) =>
             IsListOf(fr'.list,
                      SetStep(nfa, Members(fr.list), fr.source[fr.i + 1]))]_vars

\* A step under an unused generation has gone through a split state and
\* left a list of two states or more.
C14_Witness ==
    /\ fr.pc = "loop"
    /\ fr.miss
    /\ fr.fresh
    /\ Len(fr.list) >= 2
    /\ \E s \in 1..Len(nfa) : nfa[s].typ = split /\ nfa[s].lastlist = fr.listid

---------------------------------------------------------------------------
(* C15.  Whenever a closure computation starts, the first closure of a     *)
(* call with generation 1 or a step with the incremented generation, no    *)
(* state of the automaton carries that generation, in any sequence of      *)
(* Match calls on the automaton.                                           *)
C15_FreshGeneration ==
    /\ [][(fr.pc \in {"idle", "done"} /\ fr'.pc = "loop") => Unused(1)]_vars
    /\ [][(fr.pc = "loop" /\ fr'.pc = "loop" /\ fr'.listid = fr.listid + 1) =>
             Unused(fr.listid + 1)]_vars

---------------------------------------------------------------------------
\* The evaluation of a postfix sequence that never finds too few operands
\* and leaves one language.
RpnResult(ps) == RpnFrom(ps, 1, [stack |-> <<>>, bad |-> FALSE])
RpnWellFormed(ps) == ~RpnResult(ps).bad /\ Len(RpnResult(ps).stack) = 1
RpnLang(ps) == RpnResult(ps).stack[1]

(* C16.  For a well-formed postfix sequence the automaton of Post2nfa      *)
(* accepts, under the plain simulation, exactly the strings of the         *)
(* language of the postfix expression: concatenation in push order, union, *)
(* and zero or more repetitions.                                           *)
C16_ThompsonLanguage ==
    (phase = "built" /\ RpnWellFormed(post)) =>
        \A source \in Sources :
            Accepts(nfa, start, source) <=> source \in RpnLang(post)

\* An automaton of a concatenation that accepts a source of two bytes and
\* rejects the source read backwards.
C16_Witness ==
    /\ phase = "built"
    /\ RpnWellFormed(post)
    /\ \E k \in 1..Len(post) : post[k].typ = charConcat
    /\ \E source \in Sources :
           /\ Len(source) = 2
           /\ Accepts(nfa, start, source)
           /\ ~Accepts(nfa, start, <<source[2], source[1]>>)

---------------------------------------------------------------------------
\* The builder of Post2nfa after the first k tokens of ps.
BuilderAfter(ps, k) ==
    buildLoop([arena |-> <<>>, stack |-> <<>>, panic |-> FALSE],
              SubSeq(ps, 1, k), 1)

\* The arrows of out are distinct and still nil in the arena.
Dangling(arena, out) ==
    /\ \A i \in 1..Len(out) : arena[out[i].s].out[out[i].i + 1] = 0
    /\ \A i, j \in 1..Len(out) : out[i] = out[j] => i = j

\* The arrows the token after the first k of ps patches (the last patch
\* of Post2nfa when k is the length of ps).
PatchedNext(ps, k) ==
    LET b == BuilderAfter(ps, k)
    IN  IF k = Len(ps) \/ ps[k + 1].typ = charStar THEN topFrag(b).out
        ELSE IF ps[k + 1].typ = charConcat THEN topFrag(popped(b)).out
        ELSE <<>>

\* Every patch of the run finds its arrows dangling: none is patched twice.
PatchedOnce(ps) ==
    \A k \in 0..Len(ps) : Dangling(BuilderAfter(ps, k).arena, PatchedNext(ps, k))

\* The states reachable from the states of S along any arrow.
RECURSIVE Reach(_, _)
Reach(arena, S) ==
    LET more == S \cup (UNION {Members(arena[s].out) : s \in S} \ {0})
    IN  IF more = S THEN S ELSE Reach(arena, more)

(* C17.  When Post2nfa returns for the postfix sequence of a pattern lex   *)
(* accepted, one fragment was left on the stack before the last patch, no  *)
(* arrow was patched twice and none is left nil, and in the graph          *)
(* reachable from the entry state every single state has one arrow, every  *)
(* split state two, and there is one match state, which has none.          *)
C17_FullyWired ==
    phase = "built" =>
        LET R == Reach(nfa, {start})
        IN  /\ Len(BuilderAfter(post, Len(post)).stack) = 1
            /\ PatchedOnce(post)
            /\ \A s \in 1..Len(nfa) : 0 \notin Members(nfa[s].out)
            /\ \A s \in R :
                   Len(nfa[s].out) = (CASE nfa[s].typ = single -> 1
                                        [] nfa[s].typ = split -> 2
                                        [] OTHER -> 0)
            /\ Cardinality({s \in R : nfa[s].typ = match}) = 1

\* An automaton with a split state, whose last fragment had two dangling
\* arrows or more: the last patch connected them all to the match state.
C17_Witness ==
    /\ phase = "built"
    /\ Len(pattern) > 0
    /\ \E s \in 1..Len(nfa) : nfa[s].typ = split
    /\ Len(topFrag(BuilderAfter(post, Len(post))).out) >= 2

---------------------------------------------------------------------------
\* The state without its stamp.
Unstamped(st) == [st EXCEPT !.lastlist = 0]

(* C18.  During and after any Match call the states of the automaton are   *)
(* those Post2nfa produced, with their kinds, tokens and arrows: Match,    *)
(* step and addstate write the stamp lastlist and nothing else.            *)
C18_GraphUnchanged ==
    phase = "built" =>
        /\ Len(nfa) = Len(Post2nfa(post).arena)
        /\ \A s \in 1..Len(nfa) : Unstamped(nfa[s]) = Post2nfa(post).arena[s]

\* A call has returned after its steps stamped states of the automaton.
C18_Witness ==
    /\ phase = "built"
    /\ fr.pc = "done"
    /\ \E s \in 1..Len(nfa) : nfa[s].lastlist >= 2

---------------------------------------------------------------------------
\* The members of the list a dfastate points to.
NodeSet(d) == Members(deref(Mem, dfa[d].list))

(* C19.  Within a Match call the list a cached dfastate points to keeps    *)
(* the members it had when getdfastate created the node: no later step of  *)
(* the call changes the state set of a node in the cache.                  *)
C19_NodeSetFixed ==
    [][(fr.pc = "loop" /\ fr'.pc \in {"loop", "done"}) =>
          \A d \in 1..Len(dfa) : NodeSet(d)' = NodeSet(d)]_vars

---------------------------------------------------------------------------
(* The rewrite with the precedences Star > Concat > Or on two stacks: an   *)
(* operand goes to the output; a Star pops a Star on top, once; a Concat   *)
(* pops for as long as a Concat or a Star is on top; an Or pops the top    *)
(* once; each is then pushed, and at the end the stack is emptied to the   *)
(* output.                                                                 *)
RECURSIVE YardPopWhile(_, _)
YardPopWhile(p, T) ==
    IF Len(p.operator) > 0 /\ p.operator[Len(p.operator)].typ \in T
        THEN YardPopWhile(
                 [output |-> Append(p.output, p.operator[Len(p.operator)]),
                  operator |-> SubSeq(p.operator, 1, Len(p.operator) - 1)], T)
        ELSE p

YardPopOnce(p, T) ==
    IF Len(p.operator) > 0 /\ p.operator[Len(p.operator)].typ \in T
        THEN [output |-> Append(p.output, p.operator[Len(p.operator)]),
              operator |-> SubSeq(p.operator, 1, Len(p.operator) - 1)]
        ELSE p

YardToken(p, c) ==
    LET q == CASE c.typ = charStar -> YardPopOnce(p, {charStar})
               [] c.typ = charConcat -> YardPopWhile(p, {charConcat, charStar})
               [] c.typ = charOr -> YardPopOnce(p, {charStar, charConcat, charOr})
               [] OTHER -> p
    IN  IF c.typ \in {charStar, charConcat, charOr}
           THEN [q EXCEPT !.operator = Append(q.operator, c)]
           ELSE [q EXCEPT !.output = Append(q.output, c)]

RECURSIVE YardFrom(_, _, _)
YardFrom(p, cs, k) ==
    IF k > Len(cs)
        THEN YardPopWhile(p, {charStar, charConcat, charOr}).output
        ELSE YardFrom(YardToken(p, cs[k]), cs, k + 1)

Yard(cs) == YardFrom([output |-> <<>>, operator |-> <<>>], cs, 1)

(* C20.  For every token sequence lex produces, the output of postfix is   *)
(* token for token the output of that rewrite: at a Concat, postfix pops   *)
(* for as long as a Concat or a Star is on top of the operator stack.      *)
C20_PostfixConcatRule ==
    phase = "postfixed" => post = Yard(chars)

---------------------------------------------------------------------------
\* How often the token t stands in the sequence s.
Count(t, s) == Cardinality({k \in 1..Len(s) : s[k] = t})

Reversed(s) == [k \in 1..Len(s) |-> s[Len(s) + 1 - k]]

\* The two slices of postfix when its loop over the tokens cs is over.
AfterLoop(cs) == postfixLoop([output |-> <<>>, operator |-> <<>>], cs, 1)

(* C21.  For every token sequence, the output of postfix holds the tokens  *)
(* of the input, each as often as the input does; the operands stand in    *)
(* the order of the input; and the operator stack is empty at the return,  *)
(* the operators left on it after the loop having gone to the output last  *)
(* pushed first.                                                           *)
C21_PostfixOnlyReorders ==
    phase = "postfixed" =>
        /\ Len(post) = Len(chars)
        /\ \A t \in PostTokens : Count(t, post) = Count(t, chars)
        /\ SelectSeq(post, IsOperand) = SelectSeq(chars, IsOperand)
        /\ popAll(AfterLoop(chars)).operator = <<>>
        /\ post = AfterLoop(chars).output \o Reversed(AfterLoop(chars).operator)

\* postfix has returned on a sequence with two different operands that
\* left two different operators on the stack, and has changed the order.
C21_Witness ==
    /\ phase = "postfixed"
    /\ post # chars
    /\ \E i, j \in 1..Len(chars) :
           IsOperand(chars[i]) /\ IsOperand(chars[j]) /\ chars[i] # chars[j]
    /\ LET ops == AfterLoop(chars).operator
       IN  Len(ops) >= 2 /\ ops[1] # ops[2]

=============================================================================
